---- MODULE Spec2Model ----
(***************************************************************************)
(* A model of the arcanya interpreter core: the Expression value model     *)
(* (src/src/expression.rs), the Env frame chain (src/src/env.rs), the      *)
(* evaluator eval_expression / eval_call (src/src/eval.rs), the builtins   *)
(* the properties below exercise (src/src/builtin.rs) and run              *)
(* (src/src/main.rs).                                                      *)
(*                                                                         *)
(* Frames live in an arena (a sequence); a frame's parent is an index into *)
(* the arena, 0 for "no parent".  A panic, a stack overflow caused by      *)
(* unbounded recursion and a loop that never ends are all the outcome      *)
(* "Abort": the interpreter process does not survive them.                 *)
(***************************************************************************)
EXTENDS Integers, Sequences, FiniteSets, TLC

VARIABLES frames, cur, count, result, last, pos

vars == <<frames, cur, count, result, last, pos>>

---------------------------------------------------------------------------
(* Bounds of the model *)

\* Number of top-level forms one session runs.
MaxForms == 3

\* Depth of nested eval_expression calls after which the host stack is
\* taken to be exhausted.
MaxDepth == 24

---------------------------------------------------------------------------
(* Expression: src/src/expression.rs *)

Integer(i) == [tag |-> "Integer", v |-> i]

\* A Float holds its value as a whole number of parts of FloatUnit to the
\* unit: Float(FloatUnit) is 1.0, Float(2) is 0.5.
FloatUnit == 4

Float(f) == [tag |-> "Float", v |-> f]

String(s) == [tag |-> "String", v |-> s]

Symbol(s) == [tag |-> "Symbol", v |-> s]

List(l) == [tag |-> "List", v |-> l]

Table(t) == [tag |-> "Table", v |-> t]

Function(arguments, body) ==
    [tag |-> "Function", arguments |-> arguments, body |-> body]

Builtin(name) == [tag |-> "Builtin", v |-> name]

\* Expression::Nil; eval.rs and tests.rs spell the same unit value Void.
Nil == [tag |-> "Nil"]

\* lazy_static TRUE: the symbol t.
TRUE_ == Symbol("t")

\* impl From<bool> for Expression
FromBool(b) == IF b THEN TRUE_ ELSE Nil

\* The placeholder of partial application, Expression::Symbol("_").
Placeholder == Symbol("_")

\* The empty HashMap.
EmptyMap == [n \in {} |-> Nil]

---------------------------------------------------------------------------
(* Results.  kind is "Ok", "Err" (a Result::Err value travelling up with   *)
(* ?) or "Abort" (panic, stack overflow, endless loop).  st is the         *)
(* interpreter state after the evaluation: the frame arena and             *)
(* EVALUATION_COUNT.                                                       *)

Ok(val, st) == [kind |-> "Ok", val |-> val, st |-> st]

Err(msg, st) == [kind |-> "Err", val |-> String(msg), st |-> st]

Abort(msg, st) == [kind |-> "Abort", val |-> String(msg), st |-> st]

\* Option<Expression> of Env::get, with the diverging lookup as "Abort".
Some(val) == [kind |-> "Some", val |-> val]

None == [kind |-> "None", val |-> Nil]

Diverge == [kind |-> "Abort", val |-> Nil]

---------------------------------------------------------------------------
(* Env: src/src/env.rs *)

\* Env::new: a frame seeded with the two reserved tables.
EnvNew(parent) ==
    [parent |-> parent,
     local  |-> ("__EXPORTED" :> Table(EmptyMap)) @@
                ("__IMPORTED" :> Table(EmptyMap))]

\* The frame eval_call builds for a call: Env { parent, local: HashMap::new() }.
CallFrame(parent) == [parent |-> parent, local |-> EmptyMap]

\* The fallback of Env::get once the local map and the parent chain missed:
\* self.get("__IMPORTED").unwrap().as_table().unwrap().get(symbol).
\* imported is the outcome of the nested self.get("__IMPORTED").
ImportedFallback(imported, symbol) ==
    IF imported.kind # "Some" THEN Diverge
    ELSE IF imported.val.tag # "Table" THEN Diverge
    ELSE IF symbol \in DOMAIN imported.val.v THEN Some(imported.val.v[symbol])
    ELSE None

RECURSIVE get_imported_first(_, _, _)
\* Env::get with the lookup order changed: the __IMPORTED table of a frame
\* is consulted before the frame's parent chain.
get_imported_first(fs, e, symbol) ==
    LET local == fs[e].local
        table == IF "__IMPORTED" \in DOMAIN local /\ local["__IMPORTED"].tag = "Table"
                 THEN local["__IMPORTED"].v ELSE EmptyMap
    IN  IF symbol \in DOMAIN local THEN Some(local[symbol])
        ELSE IF symbol \in DOMAIN table THEN Some(table[symbol])
        ELSE IF fs[e].parent # 0 THEN get_imported_first(fs, fs[e].parent, symbol)
        ELSE None

RECURSIVE get(_, _, _)
\* Env::get.  A lookup of "__IMPORTED" that misses the local map and the
\* parent chain calls itself with the same arguments and never returns.
get(fs, e, symbol) ==
    IF symbol \in DOMAIN fs[e].local THEN Some(fs[e].local[symbol])
    ELSE LET up == IF fs[e].parent # 0 THEN get(fs, fs[e].parent, symbol)
                   ELSE None
         IN  IF up.kind # "None" THEN up
             ELSE IF symbol = "__IMPORTED" THEN Diverge
             ELSE ImportedFallback(get(fs, e, "__IMPORTED"), symbol)

\* Env::set_local
set_local(fs, e, symbol, value) ==
    [fs EXCEPT ![e].local = (symbol :> value) @@ @]

\* Env::set_parent
set_parent(fs, e, symbol, value) ==
    IF fs[e].parent # 0 THEN set_local(fs, fs[e].parent, symbol, value)
    ELSE set_local(fs, e, symbol, value)

\* Env::set_global
set_global(fs, e, symbol, value) ==
    IF fs[e].parent # 0 THEN set_parent(fs, fs[e].parent, symbol, value)
    ELSE set_local(fs, e, symbol, value)

RECURSIVE RootOf(_, _)
\* The frame of e's parent chain that has no parent.
RootOf(fs, e) == IF fs[e].parent = 0 THEN e ELSE RootOf(fs, fs[e].parent)

RECURSIVE DepthOf(_, _)
\* Number of parent links from e to the frame without parent.
DepthOf(fs, e) == IF fs[e].parent = 0 THEN 0 ELSE 1 + DepthOf(fs, fs[e].parent)

---------------------------------------------------------------------------
(* Conversions of Expression: src/src/expression.rs, as_i64 .. as_table *)

\* as_boolean: everything but Nil is true.
as_boolean(x) == x.tag # "Nil"

\* has_float (builtin.rs)
has_float(list) == \E i \in 1..Len(list) : list[i].tag = "Float"

RECURSIVE SumInts(_)
SumInts(list) == IF list = <<>> THEN 0 ELSE Head(list).v + SumInts(Tail(list))

---------------------------------------------------------------------------
(* The evaluator and the builtins call one another.  d is the depth of     *)
(* host stack left: every nested eval_expression uses one unit.            *)

RECURSIVE eval_expression(_, _, _, _)

RECURSIVE EvalEach(_, _, _, _, _)
\* list.iter().map(|e| eval_expression(env, e)).collect::<Result<Vec<_>>>():
\* left to right, stopping at the first failure.
EvalEach(st, env, list, acc, d) ==
    IF list = <<>> THEN Ok(List(acc), st)
    ELSE LET r == eval_expression(st, env, Head(list), d - 1)
         IN  IF r.kind # "Ok" THEN r
             ELSE EvalEach(r.st, env, Tail(list), Append(acc, r.val), d)

\* const PLUS
PLUS(st, env, list, d) ==
    LET ev == EvalEach(st, env, list, <<>>, d)
    IN  IF ev.kind # "Ok" THEN ev
        ELSE LET evaluated == ev.val.v
             IN  IF has_float(evaluated)
                 THEN IF \E i \in 1..Len(evaluated) : evaluated[i].tag # "Float"
                      THEN Err("Not a float", ev.st)
                      ELSE Ok(Float(SumInts(evaluated)), ev.st)
                 ELSE IF \E i \in 1..Len(evaluated) : evaluated[i].tag # "Integer"
                      THEN Err("Not an integer", ev.st)
                      ELSE Ok(Integer(SumInts(evaluated)), ev.st)

\* const FUNCTION: both operands are evaluated, then packed.
FUNCTION(st, env, list, d) ==
    IF Len(list) < 1 THEN Abort("index out of bounds", st)
    ELSE LET args == eval_expression(st, env, list[1], d - 1)
         IN  IF args.kind # "Ok" THEN args
             ELSE IF Len(list) < 2 THEN Abort("index out of bounds", args.st)
             ELSE LET body == eval_expression(args.st, env, list[2], d - 1)
                  IN  IF body.kind # "Ok" THEN body
                      ELSE IF args.val.tag # "List" THEN Err("Not a list", body.st)
                      ELSE Ok(Function(args.val.v, body.val), body.st)

\* const IF
IF_BUILTIN(st, env, list, d) ==
    IF Len(list) < 1 THEN Abort("index out of bounds", st)
    ELSE LET condition == eval_expression(st, env, list[1], d - 1)
         IN  IF condition.kind # "Ok" THEN condition
             ELSE IF as_boolean(condition.val)
                  THEN IF Len(list) < 2
                       THEN Abort("index out of bounds", condition.st)
                       ELSE eval_expression(condition.st, env, list[2], d - 1)
                  ELSE IF Len(list) > 2
                       THEN eval_expression(condition.st, env, list[3], d - 1)
                       ELSE Ok(Nil, condition.st)

\* const DEFINE
DEFINE_BUILTIN(st, env, list, d) ==
    IF Len(list) < 2 THEN Abort("index out of bounds", st)
    ELSE IF list[1].tag # "Symbol" THEN Ok(Nil, st)
    ELSE LET evaluated == eval_expression(st, env, list[2], d - 1)
         IN  IF evaluated.kind # "Ok" THEN evaluated
             ELSE Ok(Nil, [evaluated.st EXCEPT !.frames =
                             set_global(@, env, list[1].v, evaluated.val)])

\* const LET: the binding goes into the frame the let is evaluated in.
LET_BUILTIN(st, env, list, d) ==
    IF Len(list) < 2 THEN Abort("index out of bounds", st)
    ELSE LET bound ==
                 IF list[1].tag # "Symbol" THEN Ok(Nil, st)
                 ELSE LET evaluated == eval_expression(st, env, list[2], d - 1)
                      IN  IF evaluated.kind # "Ok" THEN evaluated
                          ELSE Ok(Nil, [evaluated.st EXCEPT !.frames =
                                  set_local(@, env, list[1].v, evaluated.val)])
         IN  IF bound.kind # "Ok" THEN bound
             ELSE IF Len(list) < 3 THEN Abort("index out of bounds", bound.st)
             ELSE eval_expression(bound.st, env, list[3], d - 1)

RECURSIVE FlatEval(_, _, _, _, _)
\* list.iter().flat_map(|e| eval_expression(env, e)).collect::<Vec<_>>():
\* every element is evaluated, left to right, and the failures are left out.
FlatEval(st, env, list, acc, d) ==
    IF list = <<>> THEN Ok(List(acc), st)
    ELSE LET r == eval_expression(st, env, Head(list), d - 1)
         IN  IF r.kind = "Abort" THEN r
             ELSE FlatEval(r.st, env, Tail(list),
                           IF r.kind = "Ok" THEN Append(acc, r.val) ELSE acc, d)

\* flat_map(|x| x.as_f64()) and flat_map(|x| x.as_i64()): the values of
\* the elements of the wanted type.
NumbersOf(list, type) ==
    LET kept == SelectSeq(list, LAMBDA x : x.tag = type)
    IN  [i \in 1..Len(kept) |-> kept[i].v]

RECURSIVE FoldMinus(_, _)
FoldMinus(acc, numbers) ==
    IF numbers = <<>> THEN acc ELSE FoldMinus(acc - Head(numbers), Tail(numbers))

RECURSIVE Product(_, _, _)
\* The product of numbers from acc on; unit is 1 for integers and FloatUnit
\* for floats.
Product(acc, numbers, unit) ==
    IF numbers = <<>> THEN acc
    ELSE Product((acc * Head(numbers)) \div unit, Tail(numbers), unit)

RECURSIVE FoldDivide(_, _, _)
FoldDivide(acc, numbers, unit) ==
    IF numbers = <<>> THEN acc
    ELSE FoldDivide((acc * unit) \div Head(numbers), Tail(numbers), unit)

\* const MINUS
MINUS(st, env, list, d) ==
    LET ev == FlatEval(st, env, list, <<>>, d)
    IN  IF ev.kind # "Ok" THEN ev
        ELSE LET evaluated == ev.val.v
             IN  IF evaluated = <<>> THEN Abort("index out of bounds", ev.st)
                 ELSE IF has_float(evaluated)
                 THEN IF evaluated[1].tag # "Float" THEN Err("Not a float", ev.st)
                      ELSE Ok(Float(FoldMinus(evaluated[1].v,
                                              NumbersOf(Tail(evaluated), "Float"))), ev.st)
                 ELSE IF evaluated[1].tag # "Integer" THEN Err("Not an integer", ev.st)
                      ELSE Ok(Integer(FoldMinus(evaluated[1].v,
                                                NumbersOf(Tail(evaluated), "Integer"))), ev.st)

\* const MULTIPLY: the evaluated operands are evaluated a second time.
MULTIPLY(st, env, list, d) ==
    LET ev == FlatEval(st, env, list, <<>>, d)
    IN  IF ev.kind # "Ok" THEN ev
        ELSE LET again == FlatEval(ev.st, env, ev.val.v, <<>>, d)
             IN  IF again.kind # "Ok" THEN again
                 ELSE IF has_float(ev.val.v)
                 THEN Ok(Float(Product(FloatUnit, NumbersOf(again.val.v, "Float"),
                                       FloatUnit)), again.st)
                 ELSE Ok(Integer(Product(1, NumbersOf(again.val.v, "Integer"), 1)),
                         again.st)

\* const DIVIDE: the evaluated operands after the first are evaluated a
\* second time; an integer division by zero panics.
DIVIDE(st, env, list, d) ==
    LET ev == FlatEval(st, env, list, <<>>, d)
    IN  IF ev.kind # "Ok" THEN ev
        ELSE LET evaluated == ev.val.v
                 float == has_float(evaluated)
                 type == IF float THEN "Float" ELSE "Integer"
                 again == FlatEval(ev.st, env, Tail(evaluated), <<>>, d)
                 divisors == NumbersOf(again.val.v, type)
             IN  IF evaluated = <<>> THEN Abort("index out of bounds", ev.st)
                 ELSE IF evaluated[1].tag # type
                      THEN Err(IF float THEN "Not a float" ELSE "Not an integer", ev.st)
                 ELSE IF again.kind # "Ok" THEN again
                 ELSE IF \E i \in 1..Len(divisors) : divisors[i] = 0
                      THEN Abort("division by zero", again.st)
                 ELSE IF float
                      THEN Ok(Float(FoldDivide(evaluated[1].v, divisors, FloatUnit)),
                              again.st)
                      ELSE Ok(Integer(FoldDivide(evaluated[1].v, divisors, 1)),
                              again.st)

\* const LESS_EQUAL: the first operand is unwrapped when it is compared
\* with another operand of the wanted type.
LESS_EQUAL(st, env, list, d) ==
    LET ev == FlatEval(st, env, list, <<>>, d)
    IN  IF ev.kind # "Ok" THEN ev
        ELSE LET evaluated == ev.val.v
                 type == IF has_float(evaluated) THEN "Float" ELSE "Integer"
                 others == NumbersOf(Tail(evaluated), type)
             IN  IF evaluated = <<>> THEN Abort("index out of bounds", ev.st)
                 ELSE IF others # <<>> /\ evaluated[1].tag # type
                      THEN Abort("unwrap on Err", ev.st)
                 ELSE Ok(FromBool(\A i \in 1..Len(others) : evaluated[1].v <= others[i]),
                         ev.st)

\* const AND: every operand is evaluated before the values are combined.
AND(st, env, list, d) ==
    LET ev == FlatEval(st, env, list, <<>>, d)
    IN  IF ev.kind # "Ok" THEN ev
        ELSE IF ev.val.v = <<>> THEN Abort("index out of bounds", ev.st)
        ELSE Ok(FromBool(\A i \in 1..Len(ev.val.v) : as_boolean(ev.val.v[i])), ev.st)

\* const OR: every operand is evaluated before the values are combined.
OR(st, env, list, d) ==
    LET ev == FlatEval(st, env, list, <<>>, d)
    IN  IF ev.kind # "Ok" THEN ev
        ELSE IF ev.val.v = <<>> THEN Abort("index out of bounds", ev.st)
        ELSE Ok(FromBool(\E i \in 1..Len(ev.val.v) : as_boolean(ev.val.v[i])), ev.st)

\* const SLICE: the range taken is start .. end, end being the second
\* operand; a range that ends before it starts panics.
SLICE(st, env, list, d) ==
    IF Len(list) < 1 THEN Abort("index out of bounds", st)
    ELSE LET start == eval_expression(st, env, list[1], d - 1)
         IN  IF start.kind # "Ok" THEN start
             ELSE IF start.val.tag # "Integer" THEN Err("Not an integer", start.st)
             ELSE IF Len(list) < 2 THEN Abort("index out of bounds", start.st)
             ELSE LET end == eval_expression(start.st, env, list[2], d - 1)
                  IN  IF end.kind # "Ok" THEN end
                      ELSE IF end.val.tag # "Integer" THEN Err("Not an integer", end.st)
                      ELSE IF Len(list) < 3 THEN Abort("index out of bounds", end.st)
                      ELSE LET l == eval_expression(end.st, env, list[3], d - 1)
                           IN  IF l.kind # "Ok" THEN l
                               ELSE IF l.val.tag # "List" THEN Err("Not a list", l.st)
                               ELSE IF start.val.v < 0 THEN Err("Index below zero", l.st)
                               ELSE IF start.val.v + end.val.v > Len(l.val.v)
                                    THEN Err("Out of bounds", l.st)
                               ELSE IF end.val.v < start.val.v
                                    THEN Abort("slice index starts after its end", l.st)
                               ELSE Ok(List(SubSeq(l.val.v, start.val.v + 1, end.val.v)),
                                       l.st)

\* const INDEX: the index is cast to usize and the element taken with
\* l[index], which panics outside 0 .. len - 1 (a negative index becomes a
\* number above every length).
INDEX(st, env, list, d) ==
    IF Len(list) < 1 THEN Abort("index out of bounds", st)
    ELSE LET index == eval_expression(st, env, list[1], d - 1)
         IN  IF index.kind # "Ok" THEN index
             ELSE IF index.val.tag # "Integer" THEN Err("Not an integer", index.st)
             ELSE IF Len(list) < 2 THEN Abort("index out of bounds", index.st)
             ELSE LET l == eval_expression(index.st, env, list[2], d - 1)
                  IN  IF l.kind # "Ok" THEN l
                      ELSE IF l.val.tag # "List" THEN Err("Not a list", l.st)
                      ELSE IF index.val.v < 0 \/ index.val.v >= Len(l.val.v)
                           THEN Abort("index out of bounds", l.st)
                      ELSE Ok(l.val.v[index.val.v + 1], l.st)

\* const AND_THEN
AND_THEN(st, env, list, d) ==
    IF Len(list) < 1 THEN Abort("index out of bounds", st)
    ELSE LET first == eval_expression(st, env, list[1], d - 1)
         IN  IF first.kind # "Ok" THEN first
             ELSE IF Len(list) < 2 THEN Abort("index out of bounds", first.st)
             ELSE eval_expression(first.st, env, list[2], d - 1)

\* The operand of quote evaluated before it is returned.
QUOTE_evaluated(st, env, list, d) ==
    IF Len(list) < 1 THEN Abort("index out of bounds", st)
    ELSE eval_expression(st, env, list[1], d - 1)

\* const QUOTE
QUOTE(st, env, list, d) ==
    IF Len(list) < 1 THEN Abort("index out of bounds", st) ELSE Ok(list[1], st)

\* const EXPORT
EXPORT(st, env, list, d) ==
    IF Len(list) < 1 THEN Abort("index out of bounds", st)
    ELSE IF list[1].tag # "Symbol" THEN Err("Not a symbol", st)
    ELSE LET value == get(st.frames, env, list[1].v)
             local == st.frames[env].local
         IN  IF value.kind # "Some" THEN Abort("unwrap on None", st)
             ELSE IF "__EXPORTED" \notin DOMAIN local
                  THEN Abort("unwrap on None", st)
             ELSE IF local["__EXPORTED"].tag # "Table" THEN Ok(Nil, st)
             ELSE Ok(Nil, [st EXCEPT !.frames[env].local["__EXPORTED"] =
                             Table((list[1].v :> value.val) @@ @.v)])

---------------------------------------------------------------------------
(* std_lib, the file system and run *)

\* The builtins of the registry that this model implements.
BuiltinNames ==
    {"+", "-", "*", "/", "<=", "and", "or", "function", "if", "define", "let",
     "and-then", "index", "slice", "quote", "import", "export"}

\* std_lib(): the registry as a frame without parent, plus t bound to TRUE.
\* The frame is built as Env { local, parent: None }, not by Env::new.
std_lib ==
    [parent |-> 0,
     local  |-> ("t" :> TRUE_) @@ [n \in BuiltinNames |-> Builtin(n)]]

\* What parse_expression yields for text that is no expression.
ParseError == [tag |-> "ParseError"]

\* (quote x), the desugaring of '(...) and [...] (parse.rs).
Quoted(x) == List(<<Symbol("quote"), x>>)

\* The files import can read, each as the sequence of its top-level forms.
\*   lib.arc:    (define n 1) (export n)
\*   broken.arc: (define n 1) (
\*   tools.arc:  (define n 1) (let k 2 k) (define m (+ 1 2)) (export m)
\*   faulty.arc: (+ 1 "a") (define n 1) (export n)
\*   failing.arc: (define n 1) (export n) (+ 1 "a")
Files ==
    ("lib.arc" :> << List(<<Symbol("define"), Symbol("n"), Integer(1)>>),
                     List(<<Symbol("export"), Symbol("n")>>) >>) @@
    ("broken.arc" :> << List(<<Symbol("define"), Symbol("n"), Integer(1)>>),
                        ParseError >>) @@
    ("tools.arc" :> << List(<<Symbol("define"), Symbol("n"), Integer(1)>>),
                       List(<<Symbol("let"), Symbol("k"), Integer(2), Symbol("k")>>),
                       List(<<Symbol("define"), Symbol("m"),
                              List(<<Symbol("+"), Integer(1), Integer(2)>>)>>),
                       List(<<Symbol("export"), Symbol("m")>>) >>) @@
    ("faulty.arc" :> << List(<<Symbol("+"), Integer(1), String("a")>>),
                        List(<<Symbol("define"), Symbol("n"), Integer(1)>>),
                        List(<<Symbol("export"), Symbol("n")>>) >>) @@
    ("failing.arc" :> << List(<<Symbol("define"), Symbol("n"), Integer(1)>>),
                         List(<<Symbol("export"), Symbol("n")>>),
                         List(<<Symbol("+"), Integer(1), String("a")>>) >>)

RECURSIVE run_keeps_first(_, _, _, _)
\* Every form is evaluated, and the result of the first one is returned.
run_keeps_first(st, env, input, d) ==
    IF input = <<>> \/ Head(input) = ParseError THEN Err("parse error", st)
    ELSE LET r == eval_expression(st, env, Head(input), d - 1)
             rest == run_keeps_first(r.st, env, Tail(input), d)
         IN  IF r.kind = "Abort" \/ Tail(input) = <<>> THEN r
             ELSE IF rest.kind = "Abort" THEN rest
             ELSE [r EXCEPT !.st = rest.st]

RECURSIVE run(_, _, _, _)
\* run (main.rs): evaluate the first form, then run the rest; the result of
\* a form that is not the last is dropped.  A panic ends the process.
run(st, env, input, d) ==
    IF input = <<>> \/ Head(input) = ParseError THEN Err("parse error", st)
    ELSE LET r == eval_expression(st, env, Head(input), d - 1)
         IN  IF r.kind = "Abort" THEN r
             ELSE IF Tail(input) # <<>> THEN run(r.st, env, Tail(input), d)
             ELSE r

\* Exported entries bound in the importer's frame itself, not in its table.
CopyExportsAsLocals(st, env, exported) ==
    Ok(Nil, [st EXCEPT !.frames[env].local = exported @@ @])

\* The loop of IMPORT over the exported entries: each one is inserted into
\* the importer's own local __IMPORTED, which is unwrapped.
CopyExports(st, env, exported) ==
    IF DOMAIN exported = {} THEN Ok(Nil, st)
    ELSE IF "__IMPORTED" \notin DOMAIN st.frames[env].local
         THEN Abort("unwrap on None", st)
    ELSE IF st.frames[env].local["__IMPORTED"].tag # "Table" THEN Ok(Nil, st)
    ELSE Ok(Nil, [st EXCEPT !.frames[env].local["__IMPORTED"] =
                    Table(exported @@ @.v)])

\* The module frame made under frame 1, the registry frame of the importer.
load_module_over_importer(st, path, d) ==
    LET n == Len(st.frames)
        loaded == [st EXCEPT !.frames = @ \o <<EnvNew(1), EnvNew(1)>>]
    IN  [module_env |-> n + 2,
         ran |-> run(loaded, n + 2, Files[path], d - 1)]

\* IMPORT, the module part (builtin.rs 816-822): the content of the file is
\* run in a frame made by Env::new over a registry frame made by std_lib().
load_module(st, path, d) ==
    LET n == Len(st.frames)
        loaded == [st EXCEPT !.frames = @ \o <<std_lib, EnvNew(n + 1)>>]
    IN  [module_env |-> n + 2,
         ran |-> run(loaded, n + 2, Files[path], d - 1)]

\* const IMPORT
IMPORT(st, env, list, d) ==
    IF Len(list) < 1 THEN Abort("index out of bounds", st)
    ELSE IF list[1].tag # "String" THEN Err("Not a string", st)
    ELSE IF list[1].v \notin DOMAIN Files THEN Err("No such file", st)
    ELSE LET n == Len(st.frames)
             module == load_module(st, list[1].v, d)
             ran == module.ran
             back == [ran.st EXCEPT !.frames = SubSeq(@, 1, n)]
             exported == get(ran.st.frames, module.module_env, "__EXPORTED")
         IN  IF ran.kind # "Ok" THEN [ran EXCEPT !.st = back]
             ELSE IF exported.kind # "Some" THEN Abort("unwrap on None", back)
             ELSE IF exported.val.tag # "Table" THEN Err("Not a list", back)
             ELSE CopyExports(back, env, exported.val.v)

\* Builtin(f) => f(env, &list[1..])
call_builtin(name, st, env, list, d) ==
    CASE name = "+" -> PLUS(st, env, list, d)
      [] name = "-" -> MINUS(st, env, list, d)
      [] name = "*" -> MULTIPLY(st, env, list, d)
      [] name = "/" -> DIVIDE(st, env, list, d)
      [] name = "<=" -> LESS_EQUAL(st, env, list, d)
      [] name = "and" -> AND(st, env, list, d)
      [] name = "or" -> OR(st, env, list, d)
      [] name = "index" -> INDEX(st, env, list, d)
      [] name = "slice" -> SLICE(st, env, list, d)
      [] name = "function" -> FUNCTION(st, env, list, d)
      [] name = "if" -> IF_BUILTIN(st, env, list, d)
      [] name = "define" -> DEFINE_BUILTIN(st, env, list, d)
      [] name = "let" -> LET_BUILTIN(st, env, list, d)
      [] name = "and-then" -> AND_THEN(st, env, list, d)
      [] name = "quote" -> QUOTE(st, env, list, d)
      [] name = "import" -> IMPORT(st, env, list, d)
      [] name = "export" -> EXPORT(st, env, list, d)

---------------------------------------------------------------------------
(* eval_call: src/src/eval.rs 59-132 *)

RECURSIVE ResolveCaller(_, _, _)
\* while let Expression::List(_) = caller { caller = eval_expression(env, caller)? }
\* An evaluation that gives back the same list in the same state repeats
\* for ever.
ResolveCaller(r, env, d) ==
    IF r.kind # "Ok" \/ r.val.tag # "List" THEN r
    ELSE LET next == eval_expression(r.st, env, r.val, d - 1)
         IN  IF next = r THEN Abort("endless loop", r.st)
             ELSE ResolveCaller(next, env, d - 1)

\* The test that sends a call to partial application (eval.rs 75).
IsPartial(arguments, list) ==
    \/ Len(arguments) # Len(list) - 1
    \/ \E i \in 1..Len(list) : list[i] = Placeholder

RECURSIVE SpecifiedArgumentsWithPlaceholder(_, _, _, _)
\* The placeholder taken for an argument like any other.
SpecifiedArgumentsWithPlaceholder(arguments, list, i, map) ==
    IF i > Len(list) THEN [kind |-> "Ok", map |-> map]
    ELSE IF i - 1 > Len(arguments) THEN [kind |-> "Abort", map |-> map]
    ELSE IF arguments[i - 1].tag # "Symbol" THEN [kind |-> "Err", map |-> map]
    ELSE SpecifiedArgumentsWithPlaceholder(arguments, list, i + 1,
                                           (arguments[i - 1].v :> list[i]) @@ map)

RECURSIVE SpecifiedArguments(_, _, _, _)
\* specified_arguments_map (eval.rs 77-84): list[i] is the argument of
\* parameter arguments[i - 1]; here list[1] is the head, so the argument
\* list[i] belongs to arguments[i - 1] as well.  Indexing past the
\* parameters panics.
SpecifiedArguments(arguments, list, i, map) ==
    IF i > Len(list) THEN [kind |-> "Ok", map |-> map]
    ELSE IF list[i] = Placeholder
         THEN SpecifiedArguments(arguments, list, i + 1, map)
    ELSE IF i - 1 > Len(arguments) THEN [kind |-> "Abort", map |-> map]
    ELSE IF arguments[i - 1].tag # "Symbol" THEN [kind |-> "Err", map |-> map]
    ELSE SpecifiedArguments(arguments, list, i + 1,
                            (arguments[i - 1].v :> list[i]) @@ map)

\* Whether x is a symbol that is a key of map.
IsSpecified(x, map) == x.tag = "Symbol" /\ x.v \in DOMAIN map

\* new_body (eval.rs 86-95): the elements of the body list, each one that
\* is a specified parameter replaced by its argument expression.
NewBody(body_list, map) ==
    [j \in 1..Len(body_list) |->
        IF IsSpecified(body_list[j], map) THEN map[body_list[j].v]
        ELSE body_list[j]]

\* No parameter is taken off the list.
NewArgumentsAll(arguments, map) == arguments

\* new_arguments (eval.rs 97-104)
NewArguments(arguments, map) ==
    SelectSeq(arguments, LAMBDA arg : ~IsSpecified(arg, map))

\* The partial-application branch (eval.rs 76-112).
partial_application(st, arguments, body, list) ==
    IF body.tag # "List" THEN Ok(Nil, st)
    ELSE LET sp == SpecifiedArguments(arguments, list, 2, EmptyMap)
         IN  IF sp.kind = "Abort" THEN Abort("index out of bounds", st)
             ELSE IF sp.kind = "Err" THEN Err("Not a symbol", st)
             ELSE Ok(Function(NewArguments(arguments, sp.map),
                              List(NewBody(body.v, sp.map))), st)

RECURSIVE BindArguments(_, _, _, _, _, _, _)
\* The loop of full application (eval.rs 114-122): each argument is
\* evaluated in env, the caller's frame, and bound in e, the new frame.
BindArguments(st, env, e, arguments, list, i, d) ==
    IF i > Len(arguments) THEN Ok(Nil, st)
    ELSE LET value == eval_expression(st, env, list[i + 1], d - 1)
         IN  IF value.kind # "Ok" THEN value
             ELSE IF arguments[i].tag # "Symbol" THEN Err("Not a symbol", value.st)
             ELSE BindArguments(
                      [value.st EXCEPT !.frames =
                           set_local(@, e, arguments[i].v, value.val)],
                      env, e, arguments, list, i + 1, d)

\* A call frame under the registry frame, where the functions of a session
\* are defined, instead of under the caller's frame.
CallParentDefinitionSite(env) == 1

\* The parent of the frame a call creates (eval.rs 71): the caller's frame.
CallParent(env) == env

\* The full-application branch (eval.rs 70-73, 113-125).  The frame e is
\* dropped when the call returns.
full_application(st, env, arguments, body, list, d) ==
    LET n == Len(st.frames)
        e == n + 1
        made == [st EXCEPT !.frames = Append(@, CallFrame(CallParent(env)))]
        bound == BindArguments(made, env, e, arguments, list, 1, d)
        r == IF bound.kind # "Ok" THEN bound
             ELSE eval_expression(bound.st, e, body, d - 1)
    IN  [r EXCEPT !.st.frames = SubSeq(@, 1, n)]

eval_call(st, env, list, d) ==
    LET c == ResolveCaller(eval_expression(st, env, list[1], d - 1), env, d - 1)
    IN  IF c.kind # "Ok" THEN c
        ELSE LET counted == [c.st EXCEPT !.count = @ + 1]
                 caller == c.val
             IN  CASE caller.tag = "Function" ->
                        IF IsPartial(caller.arguments, list)
                        THEN partial_application(counted, caller.arguments,
                                                 caller.body, list)
                        ELSE full_application(counted, env, caller.arguments,
                                              caller.body, list, d)
                   [] caller.tag = "Builtin" ->
                        call_builtin(caller.v, counted, env, Tail(list), d)
                   [] OTHER -> Ok(caller, counted)

---------------------------------------------------------------------------
(* eval_expression: src/src/eval.rs 11-57 *)

RECURSIVE ChaseSymbol(_, _, _, _)
\* while let Expression::Symbol(s) = value { value = env.borrow().get(s).unwrap(); }
\* The frames do not change inside the loop, so a symbol met twice means
\* the loop never ends; a symbol without binding makes unwrap panic.
ChaseSymbol(fs, env, value, seen) ==
    IF value.tag # "Symbol" THEN Some(value)
    ELSE IF value.v \in seen THEN Diverge
    ELSE LET next == get(fs, env, value.v)
         IN  IF next.kind # "Some" THEN Diverge
             ELSE ChaseSymbol(fs, env, next.val, seen \cup {value.v})

\* The Symbol arm (eval.rs 25-39).
eval_symbol(st, env, s) ==
    LET first == get(st.frames, env, s)
        value == IF first.kind = "Some" THEN first.val ELSE Nil
        chased == ChaseSymbol(st.frames, env, value, {})
    IN  IF first.kind = "Abort" THEN Abort("lookup never returns", st)
        ELSE IF chased.kind # "Some" THEN Abort("symbol chase", st)
        ELSE Ok(chased.val, st)

\* The List arm (eval.rs 40-55): a call when the head is a bound symbol or
\* evaluates to a Function, the list itself otherwise.
eval_list_arm(st, env, expr, d) ==
    LET list == expr.v
        head == list[1]
        bound == IF head.tag = "Symbol" THEN get(st.frames, env, head.v) ELSE None
        h == eval_expression(st, env, head, d - 1)
    IN  IF Len(list) = 0 THEN Abort("index out of bounds", st)
        ELSE IF bound.kind = "Abort" THEN Abort("lookup never returns", st)
        ELSE IF bound.kind = "Some" THEN eval_call(st, env, list, d)
        ELSE IF h.kind = "Abort" THEN h
        ELSE IF h.kind = "Ok" /\ h.val.tag = "Function"
             THEN eval_call(h.st, env, list, d)
        ELSE Ok(expr, h.st)

eval_expression(st, env, expr, d) ==
    IF d <= 0 THEN Abort("stack overflow", st)
    ELSE CASE expr.tag = "Symbol" -> eval_symbol(st, env, expr.v)
           [] expr.tag = "List" -> eval_list_arm(st, env, expr, d)
           [] OTHER -> Ok(expr, st)

---------------------------------------------------------------------------
(* The session: run applied to one top-level form after another.           *)
(*                                                                         *)
(* frames, count  the frame arena and EVALUATION_COUNT                     *)
(* cur            the frame handed to run: the registry frame of main, or  *)
(*                the module frame IMPORT builds with Env::new over a      *)
(*                registry frame                                           *)
(* result         the outcome of the last form                             *)
(* last           the last form                                            *)
(* pos            the number of forms evaluated so far                     *)

\* Deepest nesting of immediately-called functions around a form.
MaxNesting == 3

Paths == {"lib.arc", "broken.arc", "missing.arc"}

\* The outcome of an evaluation without the interpreter state.
Outcome(r) == [kind |-> r.kind, val |-> r.val]

RECURSIVE Nest(_, _)
\* form wrapped k times as the body of a parameterless function that is
\* called on the spot: ((function '() 'form)).
Nest(k, form) ==
    IF k = 0 THEN form
    ELSE List(<< List(<<Symbol("function"), Quoted(List(<<>>)),
                        Quoted(Nest(k - 1, form))>>) >>)

DefineForm(name, value) == List(<<Symbol("define"), Symbol(name), value>>)

LetForm(name, value, body) == List(<<Symbol("let"), Symbol(name), value, body>>)

ImportForm(path) == List(<<Symbol("import"), String(path)>>)

\* run goes on while there is text left and the process is alive.
CanRun == pos < MaxForms /\ result.kind # "Abort"

\* One step of run: the next top-level form is evaluated in cur.
Step(form) ==
    /\ LET r == eval_expression([frames |-> frames, count |-> count],
                                cur, form, MaxDepth)
       IN  /\ frames' = r.st.frames
           /\ count' = r.st.count
           /\ result' = Outcome(r)
    /\ last' = form
    /\ pos' = pos + 1
    /\ cur' = cur

\* main: the registry frame alone.
InitMain ==
    /\ frames = <<std_lib>>
    /\ cur = 1

\* IMPORT: a module frame made by Env::new over a registry frame.
InitModule ==
    /\ frames = <<std_lib, EnvNew(1)>>
    /\ cur = 2

Fresh ==
    /\ count = 0
    /\ result = [kind |-> "Start", val |-> Nil]
    /\ last = Nil
    /\ pos = 0

Init == (InitMain \/ InitModule) /\ Fresh

\* The symbol n, at top level or inside nested calls.
RunSymbol ==
    \E k \in 0..MaxNesting :
        /\ CanRun
        /\ Step(Nest(k, Symbol("n")))

\* (define n 2), at top level or inside nested calls.
RunDefine ==
    \E k \in 0..MaxNesting :
        /\ CanRun
        /\ Step(Nest(k, DefineForm("n", Integer(2))))

\* (let n 3 (+ n 1))
RunLet ==
    /\ CanRun
    /\ Step(LetForm("n", Integer(3),
                    List(<<Symbol("+"), Symbol("n"), Integer(1)>>)))

\* (import "path")
RunImport ==
    \E p \in Paths :
        /\ CanRun
        /\ Step(ImportForm(p))

Next == RunSymbol \/ RunDefine \/ RunLet \/ RunImport

Spec == Init /\ [][Next]_vars

\* What frame e itself binds s to.
LocalBinding(fs, e, s) ==
    IF s \in DOMAIN fs[e].local THEN Some(fs[e].local[s]) ELSE None

---------------------------------------------------------------------------
(* A session of main that defines a function f and applies it.            *)

\* Longest argument list of a call form.
MaxArgs == 3

X == Symbol("x")

Y == Symbol("y")

Z == Symbol("z")

\* The functions f is defined as: parameters used once, inside a nested
\* list, several times or not at all, a body that is not a list, no
\* parameter, and a free variable.
FunctionFamily ==
    { Function(<<X, Y>>, List(<<Symbol("+"), X, Y>>)),
      Function(<<X, Y>>, List(<<Symbol("+"), List(<<Symbol("+"), X, Integer(1)>>), Y>>)),
      Function(<<X, Y>>, List(<<Symbol("+"), X, X>>)),
      Function(<<X, Y, Z>>, List(<<Symbol("+"), X, Y, Z>>)),
      Function(<<X, Y>>, Integer(5)),
      Function(<<>>, List(<<Symbol("+"), Integer(1), Integer(2)>>)),
      Function(<<X>>, List(<<Symbol("+"), X, Y>>)) }

\* (function 'arguments 'body)
FunctionForm(F) ==
    List(<<Symbol("function"), Quoted(List(F.arguments)), Quoted(F.body)>>)

\* The argument lists of a call: position i holds the integer i or the
\* placeholder _.
ArgLists ==
    UNION { { [i \in 1..n |-> IF i \in S THEN Placeholder ELSE Integer(i)] :
                S \in SUBSET (1..n) } : n \in 0..MaxArgs }

\* The argument list 1 .. n.
IntArgs(n) == [i \in 1..n |-> Integer(i)]

\* (f a1 .. ak)
ApplyForm(args) == List(<<Symbol("f")>> \o args)

\* ((f a1 .. ak) ak+1 .. an)
CurriedForm(args, k) ==
    List(<<ApplyForm(SubSeq(args, 1, k))>> \o SubSeq(args, k + 1, Len(args)))

\* (((f 1) 2) 3)
CurriedTwiceForm ==
    List(<<List(<<ApplyForm(<<Integer(1)>>), Integer(2)>>), Integer(3)>>)

\* ((function '(y) '(f 1)) 5): f called from a frame that binds y to 5.
DynamicForm ==
    List(<<FunctionForm(Function(<<Y>>, ApplyForm(<<Integer(1)>>))), Integer(5)>>)

\* What the name f is bound to in the registry frame.
BoundF == LocalBinding(frames, 1, "f")

InitApply == InitMain /\ Fresh

\* (define f (function 'arguments 'body))
RunDefineFunction ==
    \E F \in FunctionFamily :
        /\ CanRun
        /\ BoundF = None
        /\ Step(DefineForm("f", FunctionForm(F)))

\* (define y 10)
RunDefineY ==
    /\ CanRun
    /\ LocalBinding(frames, 1, "y") = None
    /\ Step(DefineForm("y", Integer(10)))

\* (f a1 .. ak)
RunApply ==
    \E args \in ArgLists :
        /\ CanRun
        /\ BoundF # None
        /\ Step(ApplyForm(args))

\* ((f a1 .. ak) ak+1 .. an) and (((f 1) 2) 3)
RunCurried ==
    \/ \E n \in 2..MaxArgs : \E k \in 1..(n - 1) :
           /\ CanRun
           /\ BoundF # None
           /\ Step(CurriedForm(IntArgs(n), k))
    \/ /\ CanRun
       /\ BoundF # None
       /\ Step(CurriedTwiceForm)

\* ((function '(y) '(f 1)) 5)
RunDynamic ==
    /\ CanRun
    /\ BoundF # None
    /\ Step(DynamicForm)

NextApply ==
    RunDefineFunction \/ RunDefineY \/ RunApply \/ RunCurried \/ RunDynamic

SpecApply == InitApply /\ [][NextApply]_vars

---------------------------------------------------------------------------
(* main with a file argument: run applied once to the text of the file.   *)

\* Number of top-level forms of a source text.
MaxSource == 3

\* (+ 1 "a"): PLUS fails with an error on the string.
FailingForm == List(<<Symbol("+"), Integer(1), String("a")>>)

\* (define n (+ n 1))
IncrementForm ==
    DefineForm("n", List(<<Symbol("+"), Symbol("n"), Integer(1)>>))

\* The top-level forms of the source texts, and text that does not parse.
SourceForms ==
    { DefineForm("n", Integer(1)), IncrementForm, Symbol("n"), Integer(5),
      FailingForm, ParseError }

\* The source texts, each as the sequence of its top-level forms.
Sources == UNION { [1..n -> SourceForms] : n \in 1..MaxSource }

\* The source text that a session has run.
Source(input) == [tag |-> "Source", v |-> input]

InitRun == InitMain /\ Fresh

\* run(&mut global, &content)
RunFile ==
    \E input \in Sources :
        /\ pos = 0
        /\ LET r == run([frames |-> frames, count |-> count], cur, input, MaxDepth)
           IN  /\ frames' = r.st.frames
               /\ count' = r.st.count
               /\ result' = Outcome(r)
        /\ last' = Source(input)
        /\ pos' = 1
        /\ cur' = cur

NextRun == RunFile

SpecRun == InitRun /\ [][NextRun]_vars

---------------------------------------------------------------------------
(* A session that imports modules, at top level and from inside a call,   *)
(* defines names, one of them the name of a builtin, and looks names up.   *)

ModulePaths == {"lib.arc", "tools.arc", "broken.arc"}

\* Whether the import is written at top level or inside a call.
ImportNesting == {0, 1}

InitImport == (InitMain \/ InitModule) /\ Fresh

\* (import "path"), at top level or inside a call.
RunImportModule ==
    \E p \in ModulePaths : \E k \in ImportNesting :
        /\ CanRun
        /\ Step(Nest(k, ImportForm(p)))

\* (define n 2), (define m 2), (define + 2)
RunDefineName ==
    \E s \in {"n", "m", "+"} :
        /\ CanRun
        /\ Step(DefineForm(s, Integer(2)))

\* n, m
RunLookup ==
    \E s \in {"n", "m"} :
        /\ CanRun
        /\ Step(Symbol(s))

NextImport == RunImportModule \/ RunDefineName \/ RunLookup

SpecImport == InitImport /\ [][NextImport]_vars

---------------------------------------------------------------------------
(* A session that defines x and y, in any order and any number of times,   *)
(* and then evaluates one form: a function literal, a logical form, a      *)
(* quoted list, an arithmetic call or a slice.                             *)

\* Length of the list that is sliced.
ListLen == 3

\* (define x 1), (define y 2)
OperandDefinitions == {DefineForm("x", Integer(1)), DefineForm("y", Integer(2))}

\* (function (x y) (+ x y)), as tests.rs writes it
FunctionLiteral ==
    List(<<Symbol("function"), List(<<X, Y>>), List(<<Symbol("+"), X, Y>>)>>)

\* (op first (define n 2))
LogicForm(op, first) == List(<<Symbol(op), first, DefineForm("n", Integer(2))>>)

\* [e1 .. en], the bracket form (parse.rs, parse_list_square)
Square(exprs) == List(<<Symbol("quote"), List(exprs)>>)

\* The lists that are quoted: empty, of numbers, calls of builtins, a call
\* of a call.
QuotedLists ==
    { List(<<>>),
      List(<<Integer(1), Integer(2), Integer(3)>>),
      List(<<Symbol("+"), Integer(1), Integer(2)>>),
      DefineForm("n", Integer(2)),
      List(<<Symbol("n")>>),
      List(<<DefineForm("n", Integer(2)), Integer(1)>>) }

\* The operands of the arithmetic calls: 1, 2, 1.0, 2.0
Numbers == {Integer(1), Integer(2), Float(FloatUnit), Float(2 * FloatUnit)}

ArithmeticOperators == {"+", "-", "*", "/"}

\* (op a b)
ArithmeticForm(op, a, b) == List(<<Symbol(op), a, b>>)

\* The list (1 2 .. ListLen); evaluated, it is itself.
TheList == List([i \in 1..ListLen |-> Integer(i)])

\* (slice start len (1 2 3))
SliceForm(start, len) ==
    List(<<Symbol("slice"), Integer(start), Integer(len), TheList>>)

\* (index i (1 2 3))
IndexForm(i) == List(<<Symbol("index"), Integer(i), TheList>>)

\* (+ 1 "a"): an operand whose evaluation fails, PLUS finding a String
\* among Integers.
FailingOperand == List(<<Symbol("+"), Integer(1), String("a")>>)

\* The builtins that take any number of operands.
VariadicOperators == ArithmeticOperators \cup {"<=", "and", "or"}

\* (op 5 (+ 1 "a"))
FailingOperandForm(op) == List(<<Symbol(op), Integer(5), FailingOperand>>)

\* The session has evaluated definitions only.
OnlyDefinitions == last = Nil \/ last \in OperandDefinitions

InitForms == InitMain /\ Fresh

RunDefineOperand ==
    \E form \in OperandDefinitions :
        /\ CanRun
        /\ OnlyDefinitions
        /\ Step(form)

RunFunctionLiteral ==
    /\ CanRun
    /\ OnlyDefinitions
    /\ Step(FunctionLiteral)

RunLogic ==
    \E op \in {"and", "or"} : \E first \in {Nil, Integer(1)} :
        /\ CanRun
        /\ OnlyDefinitions
        /\ Step(LogicForm(op, first))

RunQuote ==
    \E L \in QuotedLists :
        \/ /\ CanRun
           /\ OnlyDefinitions
           /\ Step(Quoted(L))
        \/ /\ CanRun
           /\ OnlyDefinitions
           /\ Step(Square(L.v))

RunArithmetic ==
    \E op \in ArithmeticOperators : \E a \in Numbers : \E b \in Numbers :
        /\ CanRun
        /\ OnlyDefinitions
        /\ Step(ArithmeticForm(op, a, b))

RunSlice ==
    \E start \in -1..(ListLen + 1) : \E len \in -1..(ListLen + 1) :
        /\ CanRun
        /\ OnlyDefinitions
        /\ Step(SliceForm(start, len))

RunIndex ==
    \E i \in -1..(ListLen + 1) :
        /\ CanRun
        /\ OnlyDefinitions
        /\ Step(IndexForm(i))

RunFailingOperand ==
    \E op \in VariadicOperators :
        /\ CanRun
        /\ OnlyDefinitions
        /\ Step(FailingOperandForm(op))

NextForms ==
    \/ RunDefineOperand
    \/ RunFunctionLiteral
    \/ RunLogic
    \/ RunQuote
    \/ RunArithmetic
    \/ RunSlice
    \/ RunIndex
    \/ RunFailingOperand

SpecForms == InitForms /\ [][NextForms]_vars

---------------------------------------------------------------------------
(* A session that defines fibonacci and calls it.                          *)

\* Largest argument of fibonacci.
MaxFib == 4

\* (if (<= x 2) 1 (+ (fibonacci (- x 1)) (fibonacci (- x 2))))
FibonacciBody ==
    List(<<Symbol("if"),
           List(<<Symbol("<="), X, Integer(2)>>),
           Integer(1),
           List(<<Symbol("+"),
                  List(<<Symbol("fibonacci"), List(<<Symbol("-"), X, Integer(1)>>)>>),
                  List(<<Symbol("fibonacci"), List(<<Symbol("-"), X, Integer(2)>>)>>)>>)>>)

\* (define fibonacci (function (x) body)), the text of tests.rs
FibonacciDefinition ==
    DefineForm("fibonacci", List(<<Symbol("function"), List(<<X>>), FibonacciBody>>))

\* (define fibonacci (function '(x) 'body))
FibonacciDefinitionQuoted ==
    DefineForm("fibonacci", FunctionForm(Function(<<X>>, FibonacciBody)))

\* (fibonacci i)
FibonacciCall(i) == List(<<Symbol("fibonacci"), Integer(i)>>)

InitFib == InitMain /\ Fresh

RunDefineFibonacci ==
    \E form \in {FibonacciDefinition, FibonacciDefinitionQuoted} :
        /\ CanRun
        /\ Step(form)

RunFibonacci ==
    \E i \in 1..MaxFib :
        /\ CanRun
        /\ Step(FibonacciCall(i))

\* (define x i): a global of the parameter's name
RunDefineParameterName ==
    \E i \in 1..MaxFib :
        /\ CanRun
        /\ Step(DefineForm("x", Integer(i)))

NextFib == RunDefineFibonacci \/ RunFibonacci \/ RunDefineParameterName

SpecFib == InitFib /\ [][NextFib]_vars

---------------------------------------------------------------------------
(* A session of call dispatch: x and y are defined as values of several    *)
(* kinds, then lists with heads of several kinds and plain symbols are     *)
(* evaluated.                                                              *)

\* (1 2 3) as data
DataList == List(<<Integer(1), Integer(2), Integer(3)>>)

\* (function '(a) 'a)
Identity == FunctionForm(Function(<<Symbol("a")>>, Symbol("a")))

\* The value operands of define: 1, "a", '(1 2 3), (quote x), (quote y),
\* (function '(a) 'a).
HeadValues ==
    { Integer(1), String("a"), Quoted(DataList), Quoted(X), Quoted(Y), Identity }

\* ((if 1 +) 1 2): the head evaluates to the Builtin +
BuiltinHeadForm ==
    List(<<List(<<Symbol("if"), Integer(1), Symbol("+")>>), Integer(1), Integer(2)>>)

\* (x 2), (x), (1 2), ("a" 2), ((if 1 +) 1 2)
HeadForms ==
    { List(<<X, Integer(2)>>),
      List(<<X>>),
      List(<<Integer(1), Integer(2)>>),
      List(<<String("a"), Integer(2)>>),
      BuiltinHeadForm }

\* ((if (define x (+ x 1)) 1 (function '(a) 'a)) 5): the head is a call
\* that defines x anew and gives the identity function.
CountingHeadForm ==
    List(<<List(<<Symbol("if"),
                  DefineForm("x", List(<<Symbol("+"), X, Integer(1)>>)),
                  Integer(1),
                  Identity>>),
           Integer(5)>>)

\* t, x, y
SymbolForms == {Symbol("t"), X, Y}

InitDispatch == (InitMain \/ InitModule) /\ Fresh

RunDefineHead ==
    \E name \in {"x", "y"}, value \in HeadValues :
        /\ CanRun
        /\ Step(DefineForm(name, value))

RunHeadForm ==
    \E form \in HeadForms :
        /\ CanRun
        /\ Step(form)

RunCountingHead ==
    /\ CanRun
    /\ Step(CountingHeadForm)

RunSymbolForm ==
    \E form \in SymbolForms :
        /\ CanRun
        /\ Step(form)

NextDispatch == RunDefineHead \/ RunHeadForm \/ RunCountingHead \/ RunSymbolForm

SpecDispatch == InitDispatch /\ [][NextDispatch]_vars

---------------------------------------------------------------------------
(* A session of imports that meet a failure: a file that is not there, a   *)
(* file whose text does not parse, and files with a failing form.          *)

\* missing.arc is no file; the others are in Files.
FailingPaths == {"missing.arc", "broken.arc", "faulty.arc", "failing.arc"}

InitFailing == (InitMain \/ InitModule) /\ Fresh

\* (import "p")
RunImportFailing ==
    \E p \in FailingPaths :
        /\ CanRun
        /\ Step(ImportForm(p))

\* n
RunLookupImported ==
    /\ CanRun
    /\ Step(Symbol("n"))

NextFailing == RunImportFailing \/ RunLookupImported

SpecFailing == InitFailing /\ [][NextFailing]_vars

---------------------------------------------------------------------------
(* Vocabulary of the properties *)

RECURSIVE Chain(_, _)
\* The frames of e's parent chain, e included.
Chain(fs, e) ==
    IF fs[e].parent = 0 THEN {e} ELSE {e} \cup Chain(fs, fs[e].parent)

RECURSIVE ChainBinding(_, _, _)
\* The binding of s in the nearest frame of e's chain that binds it.
ChainBinding(fs, e, s) ==
    IF s \in DOMAIN fs[e].local THEN Some(fs[e].local[s])
    ELSE IF fs[e].parent = 0 THEN None
    ELSE ChainBinding(fs, fs[e].parent, s)

\* s is an entry of the __IMPORTED table of some frame of e's chain.
InImported(fs, e, s) ==
    \E i \in Chain(fs, e) :
        /\ "__IMPORTED" \in DOMAIN fs[i].local
        /\ fs[i].local["__IMPORTED"].tag = "Table"
        /\ s \in DOMAIN fs[i].local["__IMPORTED"].v

\* s is bound in no frame of e's chain and in no __IMPORTED table.
Unbound(fs, e, s) ==
    ChainBinding(fs, e, s).kind = "None" /\ ~InImported(fs, e, s)

OkOf(val) == [kind |-> "Ok", val |-> val]

TheLet == LetForm("n", Integer(3), List(<<Symbol("+"), Symbol("n"), Integer(1)>>))

---------------------------------------------------------------------------
(* Properties of scoping and of symbol resolution, checked under Spec *)

\* C1: evaluating a symbol that is bound in no frame of the chain and in no
\* __IMPORTED table, at top level or inside calls, returns Nil: no error
\* and no abort.
C1_UnboundSymbolIsNil ==
    \A k \in 0..MaxNesting :
        (last = Nest(k, Symbol("n")) /\ Unbound(frames, cur, "n"))
            => result = OkOf(Nil)

\* C3: a define that succeeded at any nesting depth has written the
\* binding into the frame of the chain that has no parent.
C3_DefineWritesOutermost ==
    \A k \in 0..MaxNesting :
        (last = Nest(k, DefineForm("n", Integer(2))) /\ result.kind = "Ok")
            => LocalBinding(frames, RootOf(frames, cur), "n") = Some(Integer(2))

\* C4: when (let n 3 body) has returned, the frame it was evaluated in
\* holds for n exactly what it held before the let.
C4_LetDoesNotLeak ==
    [][(last' = TheLet /\ result'.kind = "Ok")
          => LocalBinding(frames', cur, "n") = LocalBinding(frames, cur, "n")]_vars

\* C5: a name bound both in a frame of the chain and in an __IMPORTED table
\* resolves to the binding of the nearest frame that binds it, for Env::get
\* on the current frame and for the evaluation of the symbol at top level
\* and inside calls.
C5_ChainShadowsImports ==
    (ChainBinding(frames, cur, "n").kind = "Some" /\ InImported(frames, cur, "n"))
        => /\ get(frames, cur, "n") = ChainBinding(frames, cur, "n")
           /\ \A k \in 0..MaxNesting :
                  last = Nest(k, Symbol("n"))
                      => result = OkOf(ChainBinding(frames, cur, "n").val)

\* C5 witness: n is imported with value 1 and defined with value 2, and a
\* lookup of n from inside a call has just returned 2.
C5_Witness ==
    /\ InImported(frames, cur, "n")
    /\ frames[cur].local["__IMPORTED"].v["n"] = Integer(1)
    /\ ChainBinding(frames, cur, "n") = Some(Integer(2))
    /\ last = Nest(1, Symbol("n"))
    /\ result = OkOf(Integer(2))


---------------------------------------------------------------------------
(* Properties of function application, checked under SpecApply.  F is     *)
(* what f is bound to before the step, args the arguments of the call.     *)

\* The step evaluates form while f is bound to the function F.
Applies(F, form) == BoundF = Some(F) /\ last' = form

\* Parameter i of the call receives an argument.
Supplied(args, i) == i <= Len(args) /\ args[i] # Placeholder

RECURSIVE KeepUnsupplied(_, _, _)
\* The parameters from position i on that receive no argument.
KeepUnsupplied(parameters, args, i) ==
    IF i > Len(parameters) THEN <<>>
    ELSE (IF Supplied(args, i) THEN <<>> ELSE <<parameters[i]>>)
             \o KeepUnsupplied(parameters, args, i + 1)

\* The body list with every top-level element that is a supplied parameter
\* replaced by the argument of that parameter.
SubstitutedBody(F, args) ==
    [j \in 1..Len(F.body.v) |->
        LET hit == {i \in 1..Len(F.arguments) :
                       Supplied(args, i) /\ F.body.v[j] = F.arguments[i]}
        IN  IF hit = {} THEN F.body.v[j] ELSE args[CHOOSE i \in hit : TRUE]]

\* The outcome of form evaluated in the state before the step.
OutcomeNow(form) ==
    Outcome(eval_expression([frames |-> frames, count |-> count], cur, form, MaxDepth))

\* C2: for a function of n parameters and 0 < k < n, applying the first k
\* arguments and then the other n - k gives the same outcome as applying
\* all n at once, also when the partial function is applied in two steps.
C2_CurryingAgreesWithFullApplication ==
    [][\A F \in FunctionFamily :
          /\ \A n \in 2..MaxArgs : \A k \in 1..(n - 1) :
                 (Applies(F, CurriedForm(IntArgs(n), k)) /\ Len(F.arguments) = n)
                     => result' = OutcomeNow(ApplyForm(IntArgs(n)))
          /\ (Applies(F, CurriedTwiceForm) /\ Len(F.arguments) = 3)
                 => result' = OutcomeNow(ApplyForm(IntArgs(3)))]_vars

\* C6: a function applied to as many arguments as it has parameters runs in
\* a new frame under the caller's frame: called from a frame that binds y
\* to 5 the free variable y of the body is 5, whatever the registry frame
\* binds y to; called from the registry frame it is what that frame binds;
\* and no frame that outlives the call is changed.
C6_FullApplicationUnderCallerFrame ==
    [][LET G == Function(<<X>>, List(<<Symbol("+"), X, Y>>))
       IN  /\ Applies(G, DynamicForm)
                  => result' = OkOf(Integer(6)) /\ frames' = frames
           /\ (Applies(G, ApplyForm(IntArgs(1)))
                   /\ LocalBinding(frames, 1, "y") = Some(Integer(10)))
                  => result' = OkOf(Integer(11)) /\ frames' = frames
           /\ \A F \in FunctionFamily :
                  Applies(F, ApplyForm(IntArgs(Len(F.arguments))))
                      => frames' = frames]_vars

\* C6 witness: y is 10 in the registry frame, and f, whose body adds y to
\* its parameter, called with 1 from a frame that binds y to 5, returned 6.
C6_Witness ==
    /\ BoundF = Some(Function(<<X>>, List(<<Symbol("+"), X, Y>>)))
    /\ LocalBinding(frames, 1, "y") = Some(Integer(10))
    /\ LocalBinding(frames, 1, "x") = None
    /\ last = DynamicForm
    /\ result = OkOf(Integer(6))

\* The call (f a1 .. ak) with integer arguments and 0 < k < n, n the number
\* of parameters of F.
IsUnderApplication(F, k) == 0 < k /\ k < Len(F.arguments)

\* C7 as the specification words it: under-application returns a function
\* of the parameters k + 1 .. n whose body is the list of the callable
\* expression followed by the k arguments.
C7_PartialWrapsTheCall ==
    [][\A F \in FunctionFamily : \A k \in 1..MaxArgs :
          (Applies(F, ApplyForm(IntArgs(k))) /\ IsUnderApplication(F, k))
              => result' = OkOf(Function(SubSeq(F.arguments, k + 1, Len(F.arguments)),
                                         ApplyForm(IntArgs(k))))]_vars

\* C7: under-application of a function whose body is a list returns a
\* function of the parameters k + 1 .. n whose body is the body list with
\* each top-level occurrence of one of the first k parameters replaced by
\* its unevaluated argument; when the body is not a list it returns Nil.
\* Nothing is evaluated but the head of the call.
C7_PartialSubstitutesIntoBody ==
    [][\A F \in FunctionFamily : \A k \in 1..MaxArgs :
          (Applies(F, ApplyForm(IntArgs(k))) /\ IsUnderApplication(F, k))
              => /\ result' =
                        IF F.body.tag = "List"
                        THEN OkOf(Function(SubSeq(F.arguments, k + 1, Len(F.arguments)),
                                           List(SubstitutedBody(F, IntArgs(k)))))
                        ELSE OkOf(Nil)
                 /\ frames' = frames]_vars

\* C7 witness: (f 1 2) with f of parameters (x y z) and body (+ x y z) has
\* returned the function of (z) with body (+ 1 2 z).
C7_Witness ==
    /\ BoundF = Some(Function(<<X, Y, Z>>, List(<<Symbol("+"), X, Y, Z>>)))
    /\ last = ApplyForm(IntArgs(2))
    /\ result = OkOf(Function(<<Z>>, List(<<Symbol("+"), Integer(1), Integer(2), Z>>)))

\* The call (f a1 .. ak) is a partial application whose arguments all have
\* a parameter: fewer arguments than parameters or some placeholder, and no
\* argument other than a placeholder past the last parameter.
IsPartialCall(F, args) ==
    /\ Len(args) < Len(F.arguments) \/ \E i \in 1..Len(args) : args[i] = Placeholder
    /\ \A i \in 1..Len(args) : i > Len(F.arguments) => args[i] = Placeholder

C9_NoArgumentsReturnsTheFunction ==
    [][\A F \in FunctionFamily :
          Applies(F, ApplyForm(<<>>)) => result' = OkOf(F)]_vars

\* C10: a call with more arguments than parameters ends in an evaluation
\* error: it neither returns a value nor aborts.
C10_OverApplicationIsAnError ==
    [][\A F \in FunctionFamily : \A k \in 1..MaxArgs :
          (Applies(F, ApplyForm(IntArgs(k))) /\ k > Len(F.arguments))
              => result'.kind = "Err"]_vars

---------------------------------------------------------------------------
(* Properties of run, checked under SpecRun *)

\* The forms of input are expressions: the whole text parses.
Parses(input) == \A i \in 1..Len(input) : input[i] # ParseError

RECURSIVE AfterForms(_, _)
\* The evaluation of form i of input in the state left by the forms before
\* it, each of them evaluated once and in order, from the state before the
\* step; a form that aborts is the last one evaluated.
AfterForms(input, i) ==
    IF i = 1
    THEN eval_expression([frames |-> frames, count |-> count], cur, input[1], MaxDepth - 1)
    ELSE LET before == AfterForms(input, i - 1)
         IN  IF before.kind = "Abort" THEN before
             ELSE eval_expression(before.st, cur, input[i], MaxDepth - 1)

\* C11: run evaluates every form of a text that parses once and in order,
\* each in the environment the forms before it left, and returns the result
\* of the last form.
C11_RunEvaluatesFormsInOrder ==
    [][\A input \in Sources :
          (last' = Source(input) /\ Parses(input))
              => LET r == AfterForms(input, Len(input))
                 IN  /\ result' = Outcome(r)
                     /\ frames' = r.st.frames
                     /\ count' = r.st.count]_vars

\* C11 witness: (define n 1) (define n (+ n 1)) n has returned 2, with the
\* two calls counted.
C11_Witness ==
    /\ last = Source(<<DefineForm("n", Integer(1)), IncrementForm, Symbol("n")>>)
    /\ result = OkOf(Integer(2))
    /\ LocalBinding(frames, 1, "n") = Some(Integer(2))
    /\ count = 3

RECURSIVE FirstFailure(_, _)
\* The evaluation of input that stops at the first form that does not
\* succeed.
FirstFailure(input, i) ==
    IF i = 1
    THEN eval_expression([frames |-> frames, count |-> count], cur, input[1], MaxDepth - 1)
    ELSE LET before == FirstFailure(input, i - 1)
         IN  IF before.kind # "Ok" THEN before
             ELSE eval_expression(before.st, cur, input[i], MaxDepth - 1)

\* C12: when a form of the text fails, run returns that failure and
\* evaluates no later form.
C12_FailureEndsTheRun ==
    [][\A input \in Sources :
          (last' = Source(input) /\ Parses(input))
              => LET r == FirstFailure(input, Len(input))
                 IN  /\ result' = Outcome(r)
                     /\ frames' = r.st.frames]_vars

---------------------------------------------------------------------------
(* Properties of import and export, checked under SpecImport *)

\* What each file exports, by its text.
ExportedEntries ==
    ("lib.arc" :> ("n" :> Integer(1))) @@
    ("tools.arc" :> ("m" :> Integer(3))) @@
    ("broken.arc" :> EmptyMap)

\* The __IMPORTED table of frame e, empty when the frame has none.
ImportedTable(fs, e) ==
    IF "__IMPORTED" \in DOMAIN fs[e].local /\ fs[e].local["__IMPORTED"].tag = "Table"
    THEN fs[e].local["__IMPORTED"].v
    ELSE EmptyMap

\* C13: after the import of a module whose forms all succeed, from the
\* root frame or a module frame, at top level or inside a call, the import
\* has succeeded, every exported name is an entry of the importing frame's
\* __IMPORTED table with its exported value, and a name that no frame of
\* the chain binds resolves to that value.
C13_ExportsReachTheImporter ==
    \A p \in {"lib.arc", "tools.arc"} : \A k \in ImportNesting :
        last = Nest(k, ImportForm(p))
            => /\ result = OkOf(Nil)
               /\ \A s \in DOMAIN ExportedEntries[p] :
                      /\ s \in DOMAIN ImportedTable(frames, cur)
                      /\ ImportedTable(frames, cur)[s] = ExportedEntries[p][s]
                      /\ ChainBinding(frames, cur, s) = None
                             => get(frames, cur, s) = Some(ExportedEntries[p][s])

\* The bindings of a frame other than its __IMPORTED table.
OwnBindings(frame) ==
    [s \in DOMAIN frame.local \ {"__IMPORTED"} |-> frame.local[s]]

\* C14: an import, whether it succeeds or fails, leaves every frame of the
\* importer with the bindings it had, changes in the __IMPORTED table only
\* the names the module exported, and leaves the resolution of the names
\* the module defined without exporting them as it was.
C14_ImportChangesOnlyExportedNames ==
    [][\A p \in ModulePaths : \A k \in ImportNesting :
          (last' = Nest(k, ImportForm(p)) /\ result'.kind # "Abort")
              => /\ Len(frames') = Len(frames)
                 /\ \A i \in 1..Len(frames) :
                        /\ frames'[i].parent = frames[i].parent
                        /\ OwnBindings(frames'[i]) = OwnBindings(frames[i])
                        /\ \A s \in (DOMAIN ImportedTable(frames', i)
                                        \cup DOMAIN ImportedTable(frames, i))
                                    \ DOMAIN ExportedEntries[p] :
                               /\ s \in DOMAIN ImportedTable(frames', i)
                               /\ s \in DOMAIN ImportedTable(frames, i)
                               /\ ImportedTable(frames', i)[s] = ImportedTable(frames, i)[s]
                 /\ \A s \in {"n", "k", "m", "+"} \ DOMAIN ExportedEntries[p] :
                        get(frames', cur, s) = get(frames, cur, s)]_vars

\* C14 witness: the importer defined n as 2 and imported lib.arc, then
\* tools.arc, which defines n as 1 and exports m: n is still 2, the table
\* holds the n of lib.arc and the m of tools.arc.
C14_Witness ==
    /\ last = ImportForm("tools.arc")
    /\ result = OkOf(Nil)
    /\ ChainBinding(frames, cur, "n") = Some(Integer(2))
    /\ ImportedTable(frames, cur) = ("n" :> Integer(1)) @@ ("m" :> Integer(3))

\* What the module of file p exports when it is imported in the state of
\* frames fs and count c.
ExportsOf(fs, c, p) ==
    LET module == load_module([frames |-> fs, count |-> c], p, MaxDepth)
    IN  [kind |-> module.ran.kind,
         exported |-> get(module.ran.st.frames, module.module_env, "__EXPORTED")]

\* C15: whatever the importer has defined, redefined or imported, a file
\* exports what it exports to an importer that has done nothing.
C15_ExportsIndependentOfImporter ==
    \A p \in ModulePaths :
        ExportsOf(frames, count, p) = ExportsOf(<<std_lib>>, 0, p)

\* C15 witness: the importer has redefined + as 2 and defined n and m, and
\* the import of tools.arc, which computes m as (+ 1 2), gave it m = 3.
C15_Witness ==
    /\ ChainBinding(frames, cur, "+") = Some(Integer(2))
    /\ ChainBinding(frames, cur, "m") = Some(Integer(2))
    /\ last = ImportForm("tools.arc")
    /\ result = OkOf(Nil)
    /\ ImportedTable(frames, cur) = ("m" :> Integer(3))

---------------------------------------------------------------------------
(* Properties of the builtins, checked under SpecForms *)

\* C16: (function (x y) (+ x y)) returns the function of parameters x, y
\* and body (+ x y), whether x and y are bound or not.
C16_FunctionKeepsOperandsUnevaluated ==
    last = FunctionLiteral
        => result = OkOf(Function(<<X, Y>>, List(<<Symbol("+"), X, Y>>)))

\* C17: (and nil (define n 2)) and (or 1 (define n 2)) do not evaluate the
\* define: n is not bound afterwards.
C17_AndOrShortCircuit ==
    (last = LogicForm("and", Nil) \/ last = LogicForm("or", Integer(1)))
        => ChainBinding(frames, cur, "n") = None

\* C18: (quote L) and [L] return the list L, element for element as it was
\* written, and leave every frame as it was.
C18_QuoteReturnsTheList ==
    [][\A L \in QuotedLists :
          (last' = Quoted(L) \/ last' = Square(L.v))
              => result' = OkOf(L) /\ frames' = frames]_vars

\* C18 witness: '((define n 2) 1) has returned the list, and n is unbound.
C18_Witness ==
    /\ last = Quoted(List(<<DefineForm("n", Integer(2)), Integer(1)>>))
    /\ result = OkOf(List(<<DefineForm("n", Integer(2)), Integer(1)>>))
    /\ ChainBinding(frames, cur, "n") = None

\* The value of a number in parts of FloatUnit.
Exact(x) == IF x.tag = "Float" THEN x.v ELSE x.v * FloatUnit

\* The exact result of op on the numbers a and b: a Float when one of them
\* is a Float, an Integer otherwise.
ExactResult(op, a, b) ==
    IF a.tag = "Integer" /\ b.tag = "Integer"
    THEN Integer(CASE op = "+" -> a.v + b.v
                   [] op = "-" -> a.v - b.v
                   [] op = "*" -> a.v * b.v
                   [] op = "/" -> a.v \div b.v)
    ELSE Float(CASE op = "+" -> Exact(a) + Exact(b)
                 [] op = "-" -> Exact(a) - Exact(b)
                 [] op = "*" -> (Exact(a) * Exact(b)) \div FloatUnit
                 [] op = "/" -> (Exact(a) * FloatUnit) \div Exact(b))

\* C19: an arithmetic call on two numbers succeeds with the exact result,
\* a Float when an operand is a Float and an Integer otherwise.
C19_ArithmeticTypeRule ==
    \A op \in ArithmeticOperators : \A a \in Numbers : \A b \in Numbers :
        last = ArithmeticForm(op, a, b) => result = OkOf(ExactResult(op, a, b))

\* C20: (slice start len list) with len >= 0 is an error when start < 0 or
\* start + len exceeds the length of list, and the len elements of list
\* from position start otherwise.
C20_SliceByStartAndLength ==
    \A start \in -1..(ListLen + 1) : \A len \in 0..(ListLen + 1) :
        last = SliceForm(start, len)
            => IF start < 0 \/ start + len > ListLen
               THEN result.kind = "Err"
               ELSE result = OkOf(List(SubSeq(TheList.v, start + 1, start + len)))

---------------------------------------------------------------------------
(* Properties of recursion, checked under SpecFib *)

RECURSIVE Fib(_)
\* The i-th term of 1, 1, 2, 3, 5, 8, ...
Fib(i) == IF i <= 2 THEN 1 ELSE Fib(i - 1) + Fib(i - 2)

\* C21: the definition of fibonacci as tests.rs writes it returns Nil, and
\* with fibonacci bound to that function (fibonacci i) is the i-th term of
\* the sequence for every i in 1 .. MaxFib.
C21_FibonacciTerminatesWithTheTerm ==
    /\ last = FibonacciDefinition => result = OkOf(Nil)
    /\ \A i \in 1..MaxFib :
           (last = FibonacciCall(i)
               /\ LocalBinding(frames, 1, "fibonacci") = Some(Function(<<X>>, FibonacciBody)))
               => result = OkOf(Integer(Fib(i)))

\* The binding of s that the session's frame sees in its chain.
Binding(s) == ChainBinding(frames, cur, s)

\* What the head of the last form evaluates to in the present state.
HeadNow == eval_expression([frames |-> frames, count |-> count], cur, last.v[1], MaxDepth)

\* C22: a list whose head evaluates to a Builtin is called, and a list whose
\* head evaluates to a number, a string, Nil, a data list or any other
\* non-callable value is returned as it is.
C22_CallExactlyWhenHeadIsCallable ==
    /\ last = BuiltinHeadForm => result = OkOf(Integer(3))
    /\ (last \in HeadForms /\ HeadNow.kind = "Ok"
           /\ HeadNow.val.tag \notin {"Function", "Builtin"})
           => result = OkOf(last)

\* C23: a call whose head is a symbol bound to the data list (1 2 3) ends:
\* the repeated evaluation of the head does not go on for ever.
C23_HeadResolutionTerminates ==
    (last \in HeadForms /\ last.v[1] = X /\ Binding("x") = Some(DataList))
        => result.kind # "Abort"

\* C28: with x bound to an integer k, evaluating the form whose head
\* defines x as (+ x 1) leaves x bound to k + 1: the head is evaluated once.
C28_HeadEvaluatedOnce ==
    [][(last' = CountingHeadForm /\ pos' = pos + 1
           /\ Binding("x").kind = "Some" /\ Binding("x").val.tag = "Integer")
           => ChainBinding(frames', cur', "x") = Some(Integer(Binding("x").val.v + 1))]_vars

\* C29: evaluating a symbol that is bound to a Symbol value gives a value.
C29_SymbolEvaluationTerminates ==
    (last \in SymbolForms /\ Binding(last.v).kind = "Some"
        /\ Binding(last.v).val.tag = "Symbol")
        => result.kind = "Ok"

\* C24: every frame holds __EXPORTED and __IMPORTED in its own local
\* mapping, each bound to a Table.
C24_FramesHaveReservedTables ==
    \A e \in 1..Len(frames) :
        \A s \in {"__EXPORTED", "__IMPORTED"} :
            /\ LocalBinding(frames, e, s).kind = "Some"
            /\ LocalBinding(frames, e, s).val.tag = "Table"

\* C25: a call of a builtin with an operand whose evaluation fails fails.
C25_OperandErrorFailsTheCall ==
    \A op \in VariadicOperators :
        last = FailingOperandForm(op) => result.kind = "Err"

\* C27: index and slice on (1 2 3) neither abort nor clamp: index gives the
\* element at the index when it is within the list and an error otherwise;
\* slice gives a list of elements of the list or an error.
C27_IndexAndSliceNeverAbort ==
    /\ \A i \in -1..(ListLen + 1) :
           last = IndexForm(i) =>
               IF i >= 0 /\ i < ListLen
                   THEN result = OkOf(Integer(i + 1))
                   ELSE result.kind = "Err"
    /\ \A start \in -1..(ListLen + 1) : \A end \in -1..(ListLen + 1) :
           last = SliceForm(start, end) =>
               \/ result.kind = "Err"
               \/ /\ result.kind = "Ok"
                  /\ result.val.tag = "List"
                  /\ \A j \in 1..Len(result.val.v) :
                         \E k \in 1..ListLen : result.val.v[j] = TheList.v[k]

\* C26: every builtin name is bound in the registry frame to its Builtin.
C26_RegistryIsReadOnly ==
    \A name \in BuiltinNames : LocalBinding(frames, 1, name) = Some(Builtin(name))

\* C30: an import of a file that cannot be read, does not parse or has a
\* failing top-level form returns an error and changes no frame.
C30_FailedImportChangesNothing ==
    [][(\E p \in FailingPaths : last' = ImportForm(p)) /\ pos' = pos + 1
           => result'.kind = "Err" /\ frames' = frames]_vars

====
